---- MODULE Spec2Model ----
(***************************************************************************)
(* Model of astrology_lib.calculator.AstrologyCalculator: the facade that   *)
(* turns SubjectModel / TransitSubjectModel inputs into engine requests,    *)
(* calls the engine (kerykeion) and the time source, and assembles the      *)
(* response dictionaries.                                                   *)
(*                                                                          *)
(* Every public method is one action.  The collaborators are black boxes:  *)
(* an answer of the engine is a record that carries the request it was      *)
(* computed from, so two answers are equal exactly when the requests are.   *)
(* Which collaborator call fails, and with which exception, is chosen by    *)
(* the environment for every invocation (variable engine).                  *)
(***************************************************************************)
EXTENDS Integers, Sequences, FiniteSets, TLC

VARIABLES
    op,      \* the method being answered, "idle" between calls
    args,    \* the arguments of that call
    engine,  \* the collaborators' behaviour during that call
    calls,   \* the collaborator calls the method made, in order
    result,  \* what the caller gets: a response dict or a raised exception
    shared,  \* the module-level default filters every call reads
    models,  \* the caller's input models as the call leaves them
    previous \* how the call before this one ended: "none", "OK" or "raised"
             \* (recorded by SpecHistory only)

vars == <<op, args, engine, calls, result, shared, models, previous>>

----------------------------------------------------------------------------
(* Python values *)

\* None, for the optional string-valued fields
None == "None"

\* An Optional[List[...]] argument: None, or a list
NoneList == [isNone |-> TRUE, items |-> <<>>]
List(s) == [isNone |-> FALSE, items |-> s]

\* `x or d` on an optional list: None and the empty list are falsy
ListOr(x, d) == IF x.isNone \/ x.items = <<>> THEN d ELSE x

\* `x or d` on an optional string: None and "" are falsy
StrOr(x, d) == IF x = None \/ x = "" THEN d ELSE x

\* Truth with only None taken as false
Truth_NotNone(x) == x # None

\* `True if x else False` on an optional string
Truth(x) == ~(x = None \/ x = "")

\* `needle in haystack` on texts, a text being its sequence of tokens
Contains(haystack, needle) ==
    \E i \in 0..(Len(haystack) - Len(needle)) :
        \A j \in 1..Len(needle) : haystack[i + j] = needle[j]

\* dict.pop(key) on a dict that has the key
DictPop(d, key) == [k \in (DOMAIN d) \ {key} |-> d[k]]

\* a keyword argument of an engine call, or the engine's default for it
Kw(kwargs, key, default) == IF key \in DOMAIN kwargs THEN kwargs[key] ELSE default

----------------------------------------------------------------------------
(* Bounds of the model *)

\* number of distinct years the answers of the time source range over
NumYears == 2
\* number of aspect records in an aspect list the engine returns
MaxAspects == 2

Years == 2024..(2024 + NumYears - 1)

----------------------------------------------------------------------------
(* Constants of the program *)

GEONAMES_ERROR_MESSAGE ==
    << "City/Nation name error or invalid GeoNames username. ",
       "Please check your username or city name and try again. ",
       "You can create a free username here: https://www.geonames.org/login/. ",
       "If you want to bypass the usage of GeoNames, please remove the geonames_username field from the request. ",
       "Note: The nation field should be the country code (e.g. US, UK, FR, DE, etc.)." >>

\* the text `_create_astrological_subject` looks for in the engine's failure
GEONAMES_SIGNATURE == <<"data", "found", "for", "this", "city">>

\* from kerykeion.settings.config_constants import DEFAULT_ACTIVE_POINTS,
\* DEFAULT_ACTIVE_ASPECTS: the two module-level lists as imported
ImportedDefaults ==
    [ active_points |-> List(<<"Sun", "Moon", "Ascendant">>),
      active_aspects |->
        List(<< [name |-> "conjunction", orb |-> 10], [name |-> "opposition", orb |-> 10] >>) ]

\* the lists are shared by every call and read where they are needed
DEFAULT_ACTIVE_POINTS == shared.active_points
DEFAULT_ACTIVE_ASPECTS == shared.active_aspects

----------------------------------------------------------------------------
(* Inputs *)

Usernames == {None, "", "demo_user"}

Coordinates ==
    { [latitude |-> None, longitude |-> None, timezone |-> None],
      [latitude |-> "41.9028", longitude |-> "12.4964", timezone |-> "Europe/Rome"] }

Settings ==
    { [zodiac_type |-> "Tropic", sidereal_mode |-> None,
       houses_system_identifier |-> "P", perspective_type |-> "Apparent Geocentric"],
      [zodiac_type |-> "Sidereal", sidereal_mode |-> "LAHIRI",
       houses_system_identifier |-> "W", perspective_type |-> "Heliocentric"] }

SubjectModel(name, year, loc, set, user) ==
    [ name |-> name, year |-> year, month |-> 6, day |-> 15, hour |-> 12, minute |-> 30,
      city |-> "Roma", nation |-> "IT",
      latitude |-> loc.latitude, longitude |-> loc.longitude, timezone |-> loc.timezone,
      zodiac_type |-> set.zodiac_type, sidereal_mode |-> set.sidereal_mode,
      houses_system_identifier |-> set.houses_system_identifier,
      perspective_type |-> set.perspective_type,
      geonames_username |-> user ]

TransitSubjectModel(year, loc, user) ==
    [ year |-> year, month |-> 1, day |-> 2, hour |-> 3, minute |-> 4,
      city |-> "London", nation |-> "GB",
      latitude |-> loc.latitude, longitude |-> loc.longitude, timezone |-> loc.timezone,
      geonames_username |-> user ]

FirstSubjects ==
    { SubjectModel("Alice", 1990, loc, set, user) :
        loc \in Coordinates, set \in Settings, user \in Usernames }

SecondSubjects ==
    { SubjectModel("Bob", 1985, loc, set, user) :
        loc \in Coordinates,
        set \in {s \in Settings : s.zodiac_type = "Tropic"},
        user \in {None, "demo_user"} }

\* two transit moments that differ in their date only, for every location
\* and credentials
TransitYears == {2024, 2025}

TransitSubjects ==
    { TransitSubjectModel(year, loc, user) :
        year \in TransitYears, loc \in Coordinates, user \in Usernames }

Themes == {"classic", "dark"}
Languages == {None, "FR"}

\* theme and language of a chart call
ChartStyles == [theme : Themes, language : Languages]

ActivePoints == {NoneList, List(<<>>), List(<<"Sun", "Mars">>)}
ActiveAspects == {NoneList, List(<< [name |-> "trine", orb |-> 8] >>)}

\* what get_time_from_google can answer
Datetimes ==
    { [year |-> y, month |-> 11, day |-> 2, hour |-> h, minute |-> 30, second |-> 59] :
        y \in Years, h \in {0, 23} }

----------------------------------------------------------------------------
(* The environment: which collaborator call fails, and how *)

Errors ==
    { [type |-> "KerykeionException",
       message |-> <<"No", "data", "found", "for", "this", "city", ",", "try", "again", "!">>],
      [type |-> "KeyError",
       message |-> <<"data", "found", "for", "this", "city">>],
      [type |-> "KerykeionException",
       message |-> <<"No", "data", "found", "for", "this", "town">>],
      [type |-> "ConnectionError",
       message |-> <<"found", "for", "this", "city", "no", "data">>] }

OtherError == [type |-> "KerykeionException", message |-> <<"swisseph", "failure">>]

NoFault == [kind |-> "none", nth |-> 0, err |-> OtherError]

\* the nth call of a kind fails with err
Faults ==
    {NoFault}
    \cup { [kind |-> "subject", nth |-> n, err |-> e] : n \in 1..2, e \in Errors }
    \cup { [kind |-> k, nth |-> 1, err |-> OtherError] :
            k \in {"time", "composite", "score", "aspects", "chart", "render"} }

\* the keys of the engine's composite record that repeat the two subjects
CompositeKeySets == {{"first_subject", "second_subject"}, {}}

Scores ==
    { [score_value |-> 7, score_description |-> "Medium", is_destiny_sign |-> FALSE],
      [score_value |-> 22, score_description |-> "Exceptional", is_destiny_sign |-> TRUE] }

Engine(fault, keys, score, now) ==
    [fault |-> fault, composite_keys |-> keys, score |-> score, now |-> now]

NoTime == [year |-> 0, month |-> 0, day |-> 0, hour |-> 0, minute |-> 0, second |-> 0]
NoScore == [score_value |-> 0, score_description |-> None, is_destiny_sign |-> FALSE]

\* the environment of a call that uses neither composite, score nor clock
PlainEngine(fault) == Engine(fault, {}, NoScore, NoTime)

----------------------------------------------------------------------------
(* Collaborator calls *)

Count(log, kind) == Cardinality({i \in DOMAIN log : log[i].kind = kind})

\* One call of a collaborator: logged, and either answered with value or
\* raising the environment's exception.
Call(log, e, kind, request, value) ==
    IF e.fault.kind = kind /\ e.fault.nth = Count(log, kind) + 1
    THEN [ok |-> FALSE,
          log |-> Append(log, [kind |-> kind, request |-> request, outcome |-> "raised"]),
          error |-> e.fault.err]
    ELSE [ok |-> TRUE,
          log |-> Append(log, [kind |-> kind, request |-> request, outcome |-> "ok"]),
          value |-> value]

\* kerykeion.AstrologicalSubject(**kwargs): the resolved subject
AstrologicalSubject(kwargs) ==
    [ name |-> Kw(kwargs, "name", "Now"),
      zodiac_type |-> StrOr(Kw(kwargs, "zodiac_type", None), "Tropic"),
      computed_from |-> kwargs ]

\* subject.model(): the subject's serialisable model
model(subject) == subject

\* pydantic model_dump(): the dict of the model's fields
model_dump(m) == [k \in DOMAIN m |-> m[k]]

\* [aspect.model_dump() for aspect in aspects]
DumpAll(aspects) == [i \in DOMAIN aspects |-> model_dump(aspects[i])]

\* the aspect list the engine computes for a query
AspectList(query) == [i \in 1..MaxAspects |-> [aspect_no |-> i, of |-> query]]

\* the self-aspects query of one subject
NatalQuery(subject, points, aspects) ==
    [ kind |-> "natal", subjects |-> <<subject>>,
      active_points |-> points, active_aspects |-> aspects ]

\* the cross-aspects query of two subjects
SynastryQuery(first, second, points, aspects) ==
    [ kind |-> "synastry", subjects |-> <<first, second>>,
      active_points |-> points, active_aspects |-> aspects ]

\* kerykeion.NatalAspects(subject, **kwargs)
NatalAspects(subject, kwargs) ==
    [ relevant_aspects |->
        AspectList(NatalQuery(subject,
                              Kw(kwargs, "active_points", DEFAULT_ACTIVE_POINTS),
                              Kw(kwargs, "active_aspects", DEFAULT_ACTIVE_ASPECTS))) ]

\* kerykeion.SynastryAspects(first, second, **kwargs)
SynastryAspects(first, second, kwargs) ==
    [ relevant_aspects |->
        AspectList(SynastryQuery(first, second,
                                 Kw(kwargs, "active_points", DEFAULT_ACTIVE_POINTS),
                                 Kw(kwargs, "active_aspects", DEFAULT_ACTIVE_ASPECTS))) ]

\* second_obj of a chart of one subject
NoSubject == [name |-> None]

\* kerykeion.KerykeionChartSVG(first_obj, **kwargs): the chart object, whose
\* aspects_list is the natal aspects of first_obj (Natal, Composite) or the
\* synastry aspects of first_obj and second_obj (Synastry, Transit)
KerykeionChartSVG(first_obj, kwargs) ==
    LET settings ==
            [ first_obj |-> first_obj,
              second_obj |-> Kw(kwargs, "second_obj", NoSubject),
              chart_type |-> Kw(kwargs, "chart_type", "Natal"),
              theme |-> Kw(kwargs, "theme", "classic"),
              chart_language |-> Kw(kwargs, "chart_language", "EN"),
              active_points |-> Kw(kwargs, "active_points", DEFAULT_ACTIVE_POINTS),
              active_aspects |-> Kw(kwargs, "active_aspects", DEFAULT_ACTIVE_ASPECTS) ]
    IN  [ settings |-> settings,
          aspects_list |->
            AspectList(IF settings.chart_type \in {"Synastry", "Transit"}
                       THEN SynastryQuery(first_obj, settings.second_obj,
                                          settings.active_points, settings.active_aspects)
                       ELSE NatalQuery(first_obj,
                                       settings.active_points, settings.active_aspects)) ]

\* chart.makeTemplate(minify=True)
makeTemplate(chart) == [template |-> "full", minify |-> TRUE, of |-> chart.settings]

\* chart.makeWheelOnlyTemplate(minify=True)
makeWheelOnlyTemplate(chart) == [template |-> "wheel_only", minify |-> TRUE, of |-> chart.settings]

\* CompositeSubjectFactory(first, second).get_midpoint_composite_subject_model()
CompositeSubject(first, second, keys) ==
    LET own == [ name |-> "composite", composite_chart_type |-> "Midpoint",
                 zodiac_type |-> first.zodiac_type,
                 midpoints_of |-> <<first.computed_from, second.computed_from>> ]
    IN  [ k \in (DOMAIN own) \cup keys |->
            CASE k = "first_subject" -> model(first)
              [] k = "second_subject" -> model(second)
              [] OTHER -> own[k] ]

\* RelationshipScoreFactory(first, second).get_relationship_score()
RelationshipScore(first, second, score) ==
    [ score_value |-> score.score_value,
      score_description |-> score.score_description,
      is_destiny_sign |-> score.is_destiny_sign,
      aspects |-> AspectList([kind |-> "score", subjects |-> <<first, second>>]),
      subjects |-> <<model(first), model(second)>> ]

----------------------------------------------------------------------------
(* What a method hands back *)

\* the method raised
Raised(r) == [calls |-> r.log, result |-> [status |-> "raised", error |-> r.error]]

\* the method returned a response dict
Returned(log, response) == [calls |-> log, result |-> response]

\* str(e)
str(e) == e.message

----------------------------------------------------------------------------
(* AstrologyCalculator *)

\* the keyword arguments of AstrologicalSubject(...) in the helper
SubjectKwargs(subject) ==
    [ name |-> subject.name,
      year |-> subject.year, month |-> subject.month, day |-> subject.day,
      hour |-> subject.hour, minute |-> subject.minute,
      city |-> subject.city, nation |-> subject.nation,
      lat |-> subject.latitude, lng |-> subject.longitude, tz_str |-> subject.timezone,
      zodiac_type |-> subject.zodiac_type,
      sidereal_mode |-> subject.sidereal_mode,
      houses_system_identifier |-> subject.houses_system_identifier,
      perspective_type |-> subject.perspective_type,
      geonames_username |-> subject.geonames_username,
      online |-> Truth(subject.geonames_username) ]

\* TranslateError looking for the signature's words anywhere in the message
TranslateError_AnyOrder(e) ==
    IF \A j \in 1..Len(GEONAMES_SIGNATURE) :
          \E i \in 1..Len(str(e)) : str(e)[i] = GEONAMES_SIGNATURE[j]
    THEN [type |-> "ValueError", message |-> GEONAMES_ERROR_MESSAGE, cause |-> e]
    ELSE e

\* the except clause of the helper
TranslateError(e) ==
    IF Contains(str(e), GEONAMES_SIGNATURE)
    THEN [type |-> "ValueError", message |-> GEONAMES_ERROR_MESSAGE, cause |-> e]
    ELSE e

\* the helper asking the engine once more after a failure
_create_astrological_subject_retrying(subject, log, e) ==
    LET r == Call(log, e, "subject", SubjectKwargs(subject),
                  AstrologicalSubject(SubjectKwargs(subject)))
        again == Call(r.log, e, "subject", SubjectKwargs(subject),
                      AstrologicalSubject(SubjectKwargs(subject)))
    IN  IF r.ok THEN r
        ELSE IF again.ok THEN again
        ELSE [ok |-> FALSE, log |-> again.log, error |-> TranslateError(again.error)]

_create_astrological_subject(subject, log, e) ==
    LET r == Call(log, e, "subject", SubjectKwargs(subject),
                  AstrologicalSubject(SubjectKwargs(subject)))
    IN  IF r.ok THEN r
        ELSE [ok |-> FALSE, log |-> r.log, error |-> TranslateError(r.error)]

\* TransitKwargs with the settings left at the request model's defaults
TransitKwargs_DefaultSettings(first_subject, first_astrological_subject, transit_subject) ==
    [ name |-> "Transit",
      year |-> transit_subject.year, month |-> transit_subject.month,
      day |-> transit_subject.day,
      hour |-> transit_subject.hour, minute |-> transit_subject.minute,
      city |-> transit_subject.city, nation |-> transit_subject.nation,
      lat |-> transit_subject.latitude, lng |-> transit_subject.longitude,
      tz_str |-> transit_subject.timezone,
      zodiac_type |-> "Tropic",
      sidereal_mode |-> None,
      houses_system_identifier |-> "P",
      perspective_type |-> "Apparent Geocentric",
      geonames_username |-> transit_subject.geonames_username,
      online |-> Truth(transit_subject.geonames_username) ]

\* the keyword arguments of AstrologicalSubject(...) for a transit moment
TransitKwargs(first_subject, first_astrological_subject, transit_subject) ==
    [ name |-> "Transit",
      year |-> transit_subject.year, month |-> transit_subject.month,
      day |-> transit_subject.day,
      hour |-> transit_subject.hour, minute |-> transit_subject.minute,
      city |-> transit_subject.city, nation |-> transit_subject.nation,
      lat |-> transit_subject.latitude, lng |-> transit_subject.longitude,
      tz_str |-> transit_subject.timezone,
      zodiac_type |-> first_astrological_subject.zodiac_type,
      sidereal_mode |-> first_subject.sidereal_mode,
      houses_system_identifier |-> first_subject.houses_system_identifier,
      perspective_type |-> first_subject.perspective_type,
      geonames_username |-> transit_subject.geonames_username,
      online |-> Truth(transit_subject.geonames_username) ]

\* the transit moment is resolved by the engine directly, outside the helper
TransitSubject(first_subject, first_astrological_subject, transit_subject, log, e) ==
    LET kwargs == TransitKwargs(first_subject, first_astrological_subject, transit_subject)
    IN  Call(log, e, "subject", kwargs, AstrologicalSubject(kwargs))

\* a rendering that ignores wheel_only
Render_AlwaysFull(chart, wheel_only, log, e) ==
    Call(log, e, "render", [callee |-> "makeTemplate", minify |-> TRUE], makeTemplate(chart))

\* if wheel_only: makeWheelOnlyTemplate else: makeTemplate
Render(chart, wheel_only, log, e) ==
    IF wheel_only
    THEN Call(log, e, "render", [callee |-> "makeWheelOnlyTemplate", minify |-> TRUE],
              makeWheelOnlyTemplate(chart))
    ELSE Call(log, e, "render", [callee |-> "makeTemplate", minify |-> TRUE],
              makeTemplate(chart))

get_birth_data(subject, e) ==
    LET s == _create_astrological_subject(subject, <<>>, e)
    IN  IF ~s.ok THEN Raised(s)
        ELSE Returned(s.log, [status |-> "OK", data |-> model_dump(model(s.value))])

calculate_birth_chart(subject, theme, language, wheel_only, active_points, active_aspects, e) ==
    LET s == _create_astrological_subject(subject, <<>>, e)
    IN  IF ~s.ok THEN Raised(s) ELSE
    LET data == model_dump(model(s.value))
        kwargs == [ theme |-> theme,
                    chart_language |-> StrOr(language, "EN"),
                    active_points |-> ListOr(active_points, DEFAULT_ACTIVE_POINTS),
                    active_aspects |-> ListOr(active_aspects, DEFAULT_ACTIVE_ASPECTS) ]
        c == Call(s.log, e, "chart",
                  [callee |-> "KerykeionChartSVG", first_obj |-> s.value, kwargs |-> kwargs],
                  KerykeionChartSVG(s.value, kwargs))
    IN  IF ~c.ok THEN Raised(c) ELSE
    LET svg == Render(c.value, wheel_only, c.log, e)
    IN  IF ~svg.ok THEN Raised(svg)
        ELSE Returned(svg.log,
                      [ status |-> "OK",
                        chart |-> svg.value,
                        data |-> data,
                        aspects |-> DumpAll(c.value.aspects_list) ])

get_natal_aspects(subject, active_points, active_aspects, e) ==
    LET s == _create_astrological_subject(subject, <<>>, e)
    IN  IF ~s.ok THEN Raised(s) ELSE
    LET kwargs == [ active_points |-> ListOr(active_points, DEFAULT_ACTIVE_POINTS),
                    active_aspects |-> ListOr(active_aspects, DEFAULT_ACTIVE_ASPECTS) ]
        a == Call(s.log, e, "aspects",
                  [callee |-> "NatalAspects", first_obj |-> s.value, kwargs |-> kwargs],
                  NatalAspects(s.value, kwargs).relevant_aspects)
    IN  IF ~a.ok THEN Raised(a)
        ELSE Returned(a.log,
                      [ status |-> "OK",
                        data |-> [subject |-> model_dump(model(s.value))],
                        aspects |-> DumpAll(a.value) ])

\* "data" of the two-subject responses
PairData(first, second) ==
    [ first_subject |-> model_dump(model(first)),
      second_subject |-> model_dump(model(second)) ]

calculate_synastry_chart(first_subject, second_subject, theme, language, wheel_only, active_points, active_aspects, e) ==
    LET f == _create_astrological_subject(first_subject, <<>>, e)
    IN  IF ~f.ok THEN Raised(f) ELSE
    LET s == _create_astrological_subject(second_subject, f.log, e)
    IN  IF ~s.ok THEN Raised(s) ELSE
    LET kwargs == [ second_obj |-> s.value,
                    chart_type |-> "Synastry",
                    theme |-> theme,
                    chart_language |-> StrOr(language, "EN"),
                    active_points |-> ListOr(active_points, DEFAULT_ACTIVE_POINTS),
                    active_aspects |-> ListOr(active_aspects, DEFAULT_ACTIVE_ASPECTS) ]
        c == Call(s.log, e, "chart",
                  [callee |-> "KerykeionChartSVG", first_obj |-> f.value, kwargs |-> kwargs],
                  KerykeionChartSVG(f.value, kwargs))
    IN  IF ~c.ok THEN Raised(c) ELSE
    LET svg == Render(c.value, wheel_only, c.log, e)
    IN  IF ~svg.ok THEN Raised(svg)
        ELSE Returned(svg.log,
                      [ status |-> "OK",
                        chart |-> svg.value,
                        aspects |-> DumpAll(c.value.aspects_list),
                        data |-> PairData(f.value, s.value) ])

get_synastry_aspects(first_subject, second_subject, active_points, active_aspects, e) ==
    LET f == _create_astrological_subject(first_subject, <<>>, e)
    IN  IF ~f.ok THEN Raised(f) ELSE
    LET s == _create_astrological_subject(second_subject, f.log, e)
    IN  IF ~s.ok THEN Raised(s) ELSE
    LET kwargs == [ active_points |-> ListOr(active_points, DEFAULT_ACTIVE_POINTS),
                    active_aspects |-> ListOr(active_aspects, DEFAULT_ACTIVE_ASPECTS) ]
        a == Call(s.log, e, "aspects",
                  [callee |-> "SynastryAspects", first_obj |-> f.value,
                   second_obj |-> s.value, kwargs |-> kwargs],
                  SynastryAspects(f.value, s.value, kwargs).relevant_aspects)
    IN  IF ~a.ok THEN Raised(a)
        ELSE Returned(a.log,
                      [ status |-> "OK",
                        data |-> PairData(f.value, s.value),
                        aspects |-> DumpAll(a.value) ])

\* "data" of the transit responses
TransitData(first, second) ==
    [ subject |-> model_dump(model(first)),
      transit |-> model_dump(model(second)) ]

\* calculate_transit_chart asking for the chart type of the synastry method
calculate_transit_chart_AsSynastry(first_subject, transit_subject, theme, language, wheel_only, active_points, active_aspects, e) ==
    LET f == _create_astrological_subject(first_subject, <<>>, e)
    IN  IF ~f.ok THEN Raised(f) ELSE
    LET s == TransitSubject(first_subject, f.value, transit_subject, f.log, e)
    IN  IF ~s.ok THEN Raised(s) ELSE
    LET kwargs == [ second_obj |-> s.value,
                    chart_type |-> "Synastry",
                    theme |-> theme,
                    chart_language |-> StrOr(language, "EN"),
                    active_points |-> ListOr(active_points, DEFAULT_ACTIVE_POINTS),
                    active_aspects |-> ListOr(active_aspects, DEFAULT_ACTIVE_ASPECTS) ]
        c == Call(s.log, e, "chart",
                  [callee |-> "KerykeionChartSVG", first_obj |-> f.value, kwargs |-> kwargs],
                  KerykeionChartSVG(f.value, kwargs))
    IN  IF ~c.ok THEN Raised(c) ELSE
    LET svg == Render(c.value, wheel_only, c.log, e)
    IN  IF ~svg.ok THEN Raised(svg)
        ELSE Returned(svg.log,
                      [ status |-> "OK",
                        chart |-> svg.value,
                        aspects |-> DumpAll(c.value.aspects_list),
                        data |-> TransitData(f.value, s.value) ])

calculate_transit_chart(first_subject, transit_subject, theme, language, wheel_only, active_points, active_aspects, e) ==
    LET f == _create_astrological_subject(first_subject, <<>>, e)
    IN  IF ~f.ok THEN Raised(f) ELSE
    LET s == TransitSubject(first_subject, f.value, transit_subject, f.log, e)
    IN  IF ~s.ok THEN Raised(s) ELSE
    LET kwargs == [ second_obj |-> s.value,
                    chart_type |-> "Transit",
                    theme |-> theme,
                    chart_language |-> StrOr(language, "EN"),
                    active_points |-> ListOr(active_points, DEFAULT_ACTIVE_POINTS),
                    active_aspects |-> ListOr(active_aspects, DEFAULT_ACTIVE_ASPECTS) ]
        c == Call(s.log, e, "chart",
                  [callee |-> "KerykeionChartSVG", first_obj |-> f.value, kwargs |-> kwargs],
                  KerykeionChartSVG(f.value, kwargs))
    IN  IF ~c.ok THEN Raised(c) ELSE
    LET svg == Render(c.value, wheel_only, c.log, e)
    IN  IF ~svg.ok THEN Raised(svg)
        ELSE Returned(svg.log,
                      [ status |-> "OK",
                        chart |-> svg.value,
                        aspects |-> DumpAll(c.value.aspects_list),
                        data |-> TransitData(f.value, s.value) ])

get_transit_aspects(first_subject, transit_subject, active_points, active_aspects, e) ==
    LET f == _create_astrological_subject(first_subject, <<>>, e)
    IN  IF ~f.ok THEN Raised(f) ELSE
    LET s == TransitSubject(first_subject, f.value, transit_subject, f.log, e)
    IN  IF ~s.ok THEN Raised(s) ELSE
    LET kwargs == [ active_points |-> ListOr(active_points, DEFAULT_ACTIVE_POINTS),
                    active_aspects |-> ListOr(active_aspects, DEFAULT_ACTIVE_ASPECTS) ]
        a == Call(s.log, e, "aspects",
                  [callee |-> "SynastryAspects", first_obj |-> f.value,
                   second_obj |-> s.value, kwargs |-> kwargs],
                  SynastryAspects(f.value, s.value, kwargs).relevant_aspects)
    IN  IF ~a.ok THEN Raised(a)
        ELSE Returned(a.log,
                      [ status |-> "OK",
                        data |-> TransitData(f.value, s.value),
                        aspects |-> DumpAll(a.value) ])

\* Score with the two subjects handed over in the other order
Score_Swapped(first, second, log, e) ==
    Call(log, e, "score",
         [callee |-> "RelationshipScoreFactory", first_obj |-> second, second_obj |-> first],
         RelationshipScore(second, first, e.score))

\* RelationshipScoreFactory(first, second).get_relationship_score()
Score(first, second, log, e) ==
    Call(log, e, "score",
         [callee |-> "RelationshipScoreFactory", first_obj |-> first, second_obj |-> second],
         RelationshipScore(first, second, e.score))

\* calculate_relationship_score resolving the second subject before the first
calculate_relationship_score_SecondFirst(first_subject, second_subject, e) ==
    LET s == _create_astrological_subject(second_subject, <<>>, e)
    IN  IF ~s.ok THEN Raised(s) ELSE
    LET f == _create_astrological_subject(first_subject, s.log, e)
    IN  IF ~f.ok THEN Raised(f) ELSE
    LET m == Score(f.value, s.value, f.log, e)
    IN  IF ~m.ok THEN Raised(m)
        ELSE Returned(m.log,
                      [ status |-> "OK",
                        score |-> m.value.score_value,
                        score_description |-> m.value.score_description,
                        is_destiny_sign |-> m.value.is_destiny_sign,
                        aspects |-> DumpAll(m.value.aspects),
                        data |-> PairData(f.value, s.value) ])

calculate_relationship_score(first_subject, second_subject, e) ==
    LET f == _create_astrological_subject(first_subject, <<>>, e)
    IN  IF ~f.ok THEN Raised(f) ELSE
    LET s == _create_astrological_subject(second_subject, f.log, e)
    IN  IF ~s.ok THEN Raised(s) ELSE
    LET m == Score(f.value, s.value, s.log, e)
    IN  IF ~m.ok THEN Raised(m)
        ELSE Returned(m.log,
                      [ status |-> "OK",
                        score |-> m.value.score_value,
                        score_description |-> m.value.score_description,
                        is_destiny_sign |-> m.value.is_destiny_sign,
                        aspects |-> DumpAll(m.value.aspects),
                        data |-> PairData(f.value, s.value) ])

RECURSIVE PopKeys(_, _)
\* for key in keys: if key in d: d.pop(key)
PopKeys(d, keys) ==
    IF keys = <<>> THEN d
    ELSE PopKeys(IF Head(keys) \in DOMAIN d THEN DictPop(d, Head(keys)) ELSE d, Tail(keys))

\* StripComposite that drops the first of the two keys only
StripComposite_FirstOnly(composite_subject) ==
    PopKeys(model_dump(composite_subject), <<"first_subject">>)

\* the composite record as the responses carry it
StripComposite(composite_subject) ==
    PopKeys(model_dump(composite_subject), <<"first_subject", "second_subject">>)

\* "data" of the composite responses
CompositeData(composite_subject_dict, first, second) ==
    [ composite_subject |-> composite_subject_dict,
      first_subject |-> model_dump(model(first)),
      second_subject |-> model_dump(model(second)) ]

\* CompositeSubjectFactory(first, second).get_midpoint_composite_subject_model()
Composite(first, second, log, e) ==
    Call(log, e, "composite",
         [callee |-> "CompositeSubjectFactory", first_obj |-> first, second_obj |-> second],
         CompositeSubject(first, second, e.composite_keys))

calculate_composite_chart(first_subject, second_subject, theme, language, wheel_only, active_points, active_aspects, e) ==
    LET f == _create_astrological_subject(first_subject, <<>>, e)
    IN  IF ~f.ok THEN Raised(f) ELSE
    LET s == _create_astrological_subject(second_subject, f.log, e)
    IN  IF ~s.ok THEN Raised(s) ELSE
    LET m == Composite(f.value, s.value, s.log, e)
    IN  IF ~m.ok THEN Raised(m) ELSE
    LET kwargs == [ chart_type |-> "Composite", theme |-> theme ]
        c == Call(m.log, e, "chart",
                  [callee |-> "KerykeionChartSVG", first_obj |-> m.value, kwargs |-> kwargs],
                  KerykeionChartSVG(m.value, kwargs))
    IN  IF ~c.ok THEN Raised(c) ELSE
    LET svg == Render(c.value, wheel_only, c.log, e)
    IN  IF ~svg.ok THEN Raised(svg)
        ELSE Returned(svg.log,
                      [ status |-> "OK",
                        chart |-> svg.value,
                        aspects |-> DumpAll(c.value.aspects_list),
                        data |-> CompositeData(StripComposite(m.value), f.value, s.value) ])

get_composite_aspects(first_subject, second_subject, active_points, active_aspects, e) ==
    LET f == _create_astrological_subject(first_subject, <<>>, e)
    IN  IF ~f.ok THEN Raised(f) ELSE
    LET s == _create_astrological_subject(second_subject, f.log, e)
    IN  IF ~s.ok THEN Raised(s) ELSE
    LET m == Composite(f.value, s.value, s.log, e)
    IN  IF ~m.ok THEN Raised(m) ELSE
    LET kwargs == [ active_points |-> ListOr(active_points, DEFAULT_ACTIVE_POINTS),
                    active_aspects |-> ListOr(active_aspects, DEFAULT_ACTIVE_ASPECTS) ]
        a == Call(m.log, e, "aspects",
                  [callee |-> "NatalAspects", first_obj |-> m.value, kwargs |-> kwargs],
                  NatalAspects(m.value, kwargs).relevant_aspects)
    IN  IF ~a.ok THEN Raised(a)
        ELSE Returned(a.log,
                      [ status |-> "OK",
                        data |-> CompositeData(StripComposite(m.value), f.value, s.value),
                        aspects |-> DumpAll(a.value) ])

\* CurrentTimeKwargs with the clock's seconds taken for the minutes
CurrentTimeKwargs_SecondsAsMinutes(datetime_dict) ==
    [ city |-> "GMT", nation |-> "UK",
      lat |-> "51.477928", lng |-> "-0.001545", tz_str |-> "GMT",
      year |-> datetime_dict.year, month |-> datetime_dict.month,
      day |-> datetime_dict.day,
      hour |-> datetime_dict.hour, minute |-> datetime_dict.second,
      online |-> FALSE ]

\* the keyword arguments of AstrologicalSubject(...) for the current moment
CurrentTimeKwargs(datetime_dict) ==
    [ city |-> "GMT", nation |-> "UK",
      lat |-> "51.477928", lng |-> "-0.001545", tz_str |-> "GMT",
      year |-> datetime_dict.year, month |-> datetime_dict.month,
      day |-> datetime_dict.day,
      hour |-> datetime_dict.hour, minute |-> datetime_dict.minute,
      online |-> FALSE ]

get_current_time_data(e) ==
    LET t == Call(<<>>, e, "time", [callee |-> "get_time_from_google"], e.now)
    IN  IF ~t.ok THEN Raised(t) ELSE
    LET datetime_dict == [ year |-> t.value.year, month |-> t.value.month,
                           day |-> t.value.day, hour |-> t.value.hour,
                           minute |-> t.value.minute, second |-> t.value.second ]
        s == Call(t.log, e, "subject", CurrentTimeKwargs(datetime_dict),
                  AstrologicalSubject(CurrentTimeKwargs(datetime_dict)))
    IN  IF ~s.ok THEN Raised(s)
        ELSE Returned(s.log, [status |-> "OK", data |-> model_dump(model(s.value))])

----------------------------------------------------------------------------
(* The state machine: a caller invokes one method at a time *)

NoArgs == [self |-> "AstrologyCalculator"]
NoResult == [status |-> "none"]

Init ==
    /\ op = "idle"
    /\ args = NoArgs
    /\ engine = PlainEngine(NoFault)
    /\ calls = <<>>
    /\ result = NoResult
    /\ shared = ImportedDefaults
    /\ models = NoArgs
    /\ previous = "none"

\* a calculator that keeps the caller's filters as the defaults of later calls
SharedAfter_KeepingFilters(name, a) ==
    [ active_points |->
        IF "active_points" \in DOMAIN a
        THEN ListOr(a.active_points, shared.active_points) ELSE shared.active_points,
      active_aspects |->
        IF "active_aspects" \in DOMAIN a
        THEN ListOr(a.active_aspects, shared.active_aspects) ELSE shared.active_aspects ]

\* the module-level defaults after method `name` ran with `a`: the class has
\* no attribute and no method assigns to, or mutates, the imported lists
SharedAfter(name, a) == shared

\* the caller's models after the call: the methods only read their fields
ModelsAfter(name, a) == a

\* the method `name`, called with `a` in environment `e`, hands back `out`
Answer(name, a, e, out) ==
    /\ op' = name
    /\ args' = a
    /\ engine' = e
    /\ calls' = out.calls
    /\ result' = out.result
    /\ shared' = SharedAfter(name, a)
    /\ models' = ModelsAfter(name, a)
    /\ previous' = previous

GetBirthData ==
    /\ op = "idle"
    /\ \E subject \in FirstSubjects, fault \in Faults :
           LET e == PlainEngine(fault)
           IN  Answer("get_birth_data", [subject |-> subject], e, get_birth_data(subject, e))

CalculateBirthChart ==
    /\ op = "idle"
    /\ \E subject \in FirstSubjects, style \in ChartStyles,
          wheel_only \in BOOLEAN, active_points \in ActivePoints,
          active_aspects \in ActiveAspects, fault \in Faults :
           LET e == PlainEngine(fault)
           IN  Answer("calculate_birth_chart",
                      [ subject |-> subject, theme |-> style.theme, language |-> style.language,
                        wheel_only |-> wheel_only, active_points |-> active_points,
                        active_aspects |-> active_aspects ],
                      e,
                      calculate_birth_chart(subject, style.theme, style.language, wheel_only,
                                            active_points, active_aspects, e))

GetNatalAspects ==
    /\ op = "idle"
    /\ \E subject \in FirstSubjects, active_points \in ActivePoints,
          active_aspects \in ActiveAspects, fault \in Faults :
           LET e == PlainEngine(fault)
           IN  Answer("get_natal_aspects",
                      [ subject |-> subject, active_points |-> active_points,
                        active_aspects |-> active_aspects ],
                      e,
                      get_natal_aspects(subject, active_points, active_aspects, e))

CalculateSynastryChart ==
    /\ op = "idle"
    /\ \E first_subject \in FirstSubjects, second_subject \in SecondSubjects,
          style \in ChartStyles,
          wheel_only \in BOOLEAN, active_points \in ActivePoints,
          active_aspects \in ActiveAspects, fault \in Faults :
           LET e == PlainEngine(fault)
           IN  Answer("calculate_synastry_chart",
                      [ first_subject |-> first_subject, second_subject |-> second_subject,
                        theme |-> style.theme, language |-> style.language,
                        wheel_only |-> wheel_only, active_points |-> active_points,
                        active_aspects |-> active_aspects ],
                      e,
                      calculate_synastry_chart(first_subject, second_subject, style.theme, style.language,
                                               wheel_only, active_points, active_aspects, e))

GetSynastryAspects ==
    /\ op = "idle"
    /\ \E first_subject \in FirstSubjects, second_subject \in SecondSubjects,
          active_points \in ActivePoints, active_aspects \in ActiveAspects,
          fault \in Faults :
           LET e == PlainEngine(fault)
           IN  Answer("get_synastry_aspects",
                      [ first_subject |-> first_subject, second_subject |-> second_subject,
                        active_points |-> active_points, active_aspects |-> active_aspects ],
                      e,
                      get_synastry_aspects(first_subject, second_subject,
                                           active_points, active_aspects, e))

CalculateTransitChart ==
    /\ op = "idle"
    /\ \E first_subject \in FirstSubjects, transit_subject \in TransitSubjects,
          style \in ChartStyles,
          wheel_only \in BOOLEAN, active_points \in ActivePoints,
          active_aspects \in ActiveAspects, fault \in Faults :
           LET e == PlainEngine(fault)
           IN  Answer("calculate_transit_chart",
                      [ first_subject |-> first_subject, transit_subject |-> transit_subject,
                        theme |-> style.theme, language |-> style.language,
                        wheel_only |-> wheel_only, active_points |-> active_points,
                        active_aspects |-> active_aspects ],
                      e,
                      calculate_transit_chart(first_subject, transit_subject, style.theme, style.language,
                                              wheel_only, active_points, active_aspects, e))

GetTransitAspects ==
    /\ op = "idle"
    /\ \E first_subject \in FirstSubjects, transit_subject \in TransitSubjects,
          active_points \in ActivePoints, active_aspects \in ActiveAspects,
          fault \in Faults :
           LET e == PlainEngine(fault)
           IN  Answer("get_transit_aspects",
                      [ first_subject |-> first_subject, transit_subject |-> transit_subject,
                        active_points |-> active_points, active_aspects |-> active_aspects ],
                      e,
                      get_transit_aspects(first_subject, transit_subject,
                                          active_points, active_aspects, e))

CalculateRelationshipScore ==
    /\ op = "idle"
    /\ \E first_subject \in FirstSubjects, second_subject \in SecondSubjects,
          score \in Scores, fault \in Faults :
           LET e == Engine(fault, {}, score, NoTime)
           IN  Answer("calculate_relationship_score",
                      [ first_subject |-> first_subject, second_subject |-> second_subject ],
                      e,
                      calculate_relationship_score(first_subject, second_subject, e))

CalculateCompositeChart ==
    /\ op = "idle"
    /\ \E first_subject \in FirstSubjects, second_subject \in SecondSubjects,
          style \in ChartStyles,
          wheel_only \in BOOLEAN, active_points \in ActivePoints,
          active_aspects \in ActiveAspects,
          keys \in CompositeKeySets, fault \in Faults :
           LET e == Engine(fault, keys, NoScore, NoTime)
           IN  Answer("calculate_composite_chart",
                      [ first_subject |-> first_subject, second_subject |-> second_subject,
                        theme |-> style.theme, language |-> style.language,
                        wheel_only |-> wheel_only, active_points |-> active_points,
                        active_aspects |-> active_aspects ],
                      e,
                      calculate_composite_chart(first_subject, second_subject, style.theme, style.language,
                                                wheel_only, active_points, active_aspects, e))

GetCompositeAspects ==
    /\ op = "idle"
    /\ \E first_subject \in FirstSubjects, second_subject \in SecondSubjects,
          active_points \in ActivePoints, active_aspects \in ActiveAspects,
          keys \in CompositeKeySets, fault \in Faults :
           LET e == Engine(fault, keys, NoScore, NoTime)
           IN  Answer("get_composite_aspects",
                      [ first_subject |-> first_subject, second_subject |-> second_subject,
                        active_points |-> active_points, active_aspects |-> active_aspects ],
                      e,
                      get_composite_aspects(first_subject, second_subject,
                                            active_points, active_aspects, e))

GetCurrentTimeData ==
    /\ op = "idle"
    /\ \E now \in Datetimes, fault \in Faults :
           LET e == Engine(fault, {}, NoScore, now)
           IN  Answer("get_current_time_data", NoArgs, e, get_current_time_data(e))

\* the caller has its answer; the calculator keeps nothing of the call
Return ==
    /\ op # "idle"
    /\ op' = "idle"
    /\ args' = NoArgs
    /\ engine' = PlainEngine(NoFault)
    /\ calls' = <<>>
    /\ result' = NoResult
    /\ shared' = shared
    /\ models' = NoArgs
    /\ previous' = previous

\* Return, with the way the call ended recorded as the history of the next
ReturnRecorded ==
    /\ op # "idle"
    /\ op' = "idle"
    /\ args' = NoArgs
    /\ engine' = PlainEngine(NoFault)
    /\ calls' = <<>>
    /\ result' = NoResult
    /\ shared' = shared
    /\ models' = NoArgs
    /\ previous' = result.status

Next ==
    \/ GetBirthData
    \/ CalculateBirthChart
    \/ GetNatalAspects
    \/ CalculateSynastryChart
    \/ GetSynastryAspects
    \/ CalculateTransitChart
    \/ GetTransitAspects
    \/ CalculateRelationshipScore
    \/ CalculateCompositeChart
    \/ GetCompositeAspects
    \/ GetCurrentTimeData
    \/ Return

Spec == Init /\ [][Next]_vars

\* the same calls, each made after a call that is remembered
NextHistory ==
    \/ GetBirthData
    \/ CalculateBirthChart
    \/ GetNatalAspects
    \/ CalculateSynastryChart
    \/ GetSynastryAspects
    \/ CalculateTransitChart
    \/ GetTransitAspects
    \/ CalculateRelationshipScore
    \/ CalculateCompositeChart
    \/ GetCompositeAspects
    \/ GetCurrentTimeData
    \/ ReturnRecorded

SpecHistory == Init /\ [][NextHistory]_vars

----------------------------------------------------------------------------
(* Vocabulary of the properties *)

Succeeded == result.status = "OK"
Failed == result.status = "raised"

ChartOps == { "calculate_birth_chart", "calculate_synastry_chart",
              "calculate_transit_chart", "calculate_composite_chart" }
TransitOps == {"calculate_transit_chart", "get_transit_aspects"}
CompositeOps == {"calculate_composite_chart", "get_composite_aspects"}

\* the aspects-only method of the chart method just answered, called with
\* the same subjects and filters against the same engine
AspectsVariant ==
    CASE op = "calculate_birth_chart" ->
            get_natal_aspects(args.subject, args.active_points, args.active_aspects, engine)
      [] op = "calculate_synastry_chart" ->
            get_synastry_aspects(args.first_subject, args.second_subject,
                                 args.active_points, args.active_aspects, engine)
      [] op = "calculate_transit_chart" ->
            get_transit_aspects(args.first_subject, args.transit_subject,
                                args.active_points, args.active_aspects, engine)
      [] op = "calculate_composite_chart" ->
            get_composite_aspects(args.first_subject, args.second_subject,
                                  args.active_points, args.active_aspects, engine)

BothSucceeded == op \in ChartOps /\ Succeeded /\ AspectsVariant.result.status = "OK"

\* the last collaborator call of the method
LastCall == calls[Len(calls)]

\* the i-th call resolved a subject through _create_astrological_subject
ViaHelper(i) ==
    /\ calls[i].kind = "subject"
    /\ op # "get_current_time_data"
    /\ ~(op \in TransitOps /\ i = 2)

\* the caller's model the i-th call (a subject resolution) stands for
RawInput(i) ==
    IF i = 1
    THEN IF "subject" \in DOMAIN args THEN args.subject ELSE args.first_subject
    ELSE IF "transit_subject" \in DOMAIN args THEN args.transit_subject
         ELSE args.second_subject

\* the i-th call resolved a subject the caller supplied
CallerSubject(i) == calls[i].kind = "subject" /\ op # "get_current_time_data"

IsLocationError(error) ==
    error.type = "ValueError" /\ error.message = GEONAMES_ERROR_MESSAGE

----------------------------------------------------------------------------
(* C1 *)

\* C1: a chart method and its aspects-only method, called with the same
\* subject inputs against the same engine, answer with identical `data`
\* (same keys, same nesting, same subject records); the chart method's
\* response also has `chart`.
C1_PairedDataIdentical ==
    BothSucceeded =>
        /\ result.data = AspectsVariant.result.data
        /\ "chart" \in DOMAIN result
        /\ "chart" \notin DOMAIN AspectsVariant.result

\* C1, for the three two-subject pairs only (holds of the code)
C1_TwoSubjectPairsDataIdentical ==
    (BothSucceeded /\ op # "calculate_birth_chart") =>
        /\ result.data = AspectsVariant.result.data
        /\ "chart" \in DOMAIN result
        /\ "chart" \notin DOMAIN AspectsVariant.result

----------------------------------------------------------------------------
(* C2 *)

\* the filters the engine applies when it builds the chart of the i-th call
ChartFilters(i) ==
    LET chart == KerykeionChartSVG(calls[i].request.first_obj, calls[i].request.kwargs)
    IN  [ active_points |-> chart.settings.active_points,
          active_aspects |-> chart.settings.active_aspects ]

\* the filters the aspects-only method hands to the engine
AspectsVariantFilters ==
    LET made == AspectsVariant.calls
        kwargs == made[Len(made)].request.kwargs
    IN  [ active_points |-> kwargs.active_points,
          active_aspects |-> kwargs.active_aspects ]

\* C2: a chart method and its aspects-only method, called with the same
\* subjects and the same active_points / active_aspects, have the engine
\* compute the aspects with the same effective filters, and answer with
\* identical `aspects`.
C2_PairedAspectsIdentical ==
    BothSucceeded =>
        /\ ChartFilters(Len(calls) - 1) = AspectsVariantFilters
        /\ result.aspects = AspectsVariant.result.aspects

\* C2, for every pair but the composite one (holds of the code)
C2_NonCompositeAspectsIdentical ==
    (BothSucceeded /\ op # "calculate_composite_chart") =>
        /\ ChartFilters(Len(calls) - 1) = AspectsVariantFilters
        /\ result.aspects = AspectsVariant.result.aspects

----------------------------------------------------------------------------
(* C3 *)

\* the helper's engine call raised: it is the last call made
HelperRaised == calls # <<>> /\ LastCall.outcome = "raised" /\ ViaHelper(Len(calls))

\* C3: when the engine fails inside _create_astrological_subject, the caller
\* sees ValueError(GEONAMES_ERROR_MESSAGE) if and only if the engine's message
\* contains "data found for this city"; otherwise the caller sees the engine's
\* failure itself, type and message unchanged.
C3_TranslationIffSignature ==
    HelperRaised =>
        /\ Failed
        /\ IsLocationError(result.error) <=> Contains(engine.fault.err.message, GEONAMES_SIGNATURE)
        /\ ~Contains(engine.fault.err.message, GEONAMES_SIGNATURE) =>
              /\ DOMAIN result.error = DOMAIN engine.fault.err
              /\ result.error.type = engine.fault.err.type
              /\ result.error.message = engine.fault.err.message

\* the helper translated a failure whose message holds the signature inside
\* a longer text
C3_Witness ==
    /\ HelperRaised
    /\ Len(engine.fault.err.message) > Len(GEONAMES_SIGNATURE)
    /\ Contains(engine.fault.err.message, GEONAMES_SIGNATURE)
    /\ IsLocationError(result.error)

----------------------------------------------------------------------------
(* C4 *)

\* C4: in every public method, an engine failure with the geocoding
\* signature while resolving a subject the caller supplied (first subject,
\* second subject, transit moment) reaches the caller as
\* ValueError(GEONAMES_ERROR_MESSAGE), never as the raw engine failure.
C4_SignatureAlwaysTranslated ==
    ( /\ calls # <<>>
      /\ LastCall.outcome = "raised"
      /\ CallerSubject(Len(calls))
      /\ Contains(engine.fault.err.message, GEONAMES_SIGNATURE) )
    => (Failed /\ IsLocationError(result.error))

\* C4, for the subjects resolved through the helper only (holds of the code)
C4_HelperSubjectsTranslated ==
    (HelperRaised /\ Contains(engine.fault.err.message, GEONAMES_SIGNATURE))
    => (Failed /\ IsLocationError(result.error))

----------------------------------------------------------------------------
(* C5 *)

HasCredentials(input) == input.geonames_username \notin {None, ""}
HasCoordinates(input) == input.latitude # None

\* C5: every subject request made for a caller's SubjectModel or
\* TransitSubjectModel has online = TRUE exactly when that input has a
\* non-empty geonames_username, whatever its coordinates.
C5_OnlineIffCredentials ==
    \A i \in DOMAIN calls :
        CallerSubject(i) => (calls[i].request.online <=> HasCredentials(RawInput(i)))

\* a transit moment with credentials and coordinates was requested online,
\* after a natal subject with coordinates and an empty username was
\* requested offline
C5_Witness ==
    /\ op \in TransitOps
    /\ Len(calls) >= 2
    /\ HasCredentials(args.transit_subject) /\ HasCoordinates(args.transit_subject)
    /\ calls[2].request.online
    /\ args.first_subject.geonames_username = "" /\ HasCoordinates(args.first_subject)
    /\ ~calls[1].request.online

----------------------------------------------------------------------------
(* C6 *)

\* the other transit method, called with the same arguments and engine
OtherTransitMethod ==
    IF op = "calculate_transit_chart"
    THEN get_transit_aspects(args.first_subject, args.transit_subject,
                             args.active_points, args.active_aspects, engine)
    ELSE calculate_transit_chart(args.first_subject, args.transit_subject, "classic", "EN",
                                 FALSE, args.active_points, args.active_aspects, engine)

\* the zodiac, house and perspective settings of a subject request
RequestSettings(request) ==
    [ zodiac_type |-> request.zodiac_type,
      sidereal_mode |-> request.sidereal_mode,
      houses_system_identifier |-> request.houses_system_identifier,
      perspective_type |-> request.perspective_type ]

\* C6: the transit moment's engine request takes zodiac type, sidereal
\* mode, house system and perspective type from the natal subject, and date,
\* time, location and credentials from the transit input, and both transit
\* methods build the same request.  Holding for every call, this makes the
\* settings of two calls that differ in the transit input only the same: both
\* are the natal subject's.
C6_TransitRequest ==
    (op \in TransitOps /\ Len(calls) >= 2) =>
        LET request == calls[2].request
            natal == args.first_subject
            transit == args.transit_subject
        IN  /\ RequestSettings(request) = RequestSettings(natal)
            /\ request.zodiac_type = AstrologicalSubject(calls[1].request).zodiac_type
            /\ request.year = transit.year /\ request.month = transit.month
            /\ request.day = transit.day /\ request.hour = transit.hour
            /\ request.minute = transit.minute
            /\ request.city = transit.city /\ request.nation = transit.nation
            /\ request.lat = transit.latitude /\ request.lng = transit.longitude
            /\ request.tz_str = transit.timezone
            /\ request.geonames_username = transit.geonames_username
            /\ OtherTransitMethod.calls[2].request = request

\* a transit moment was requested for a sidereal, whole-sign, heliocentric
\* natal subject
C6_Witness ==
    /\ op \in TransitOps
    /\ Len(calls) >= 2
    /\ args.first_subject.zodiac_type = "Sidereal"
    /\ calls[2].request.houses_system_identifier = "W"
    /\ calls[2].request.year = args.transit_subject.year

----------------------------------------------------------------------------
(* C7 *)

StrippedKeys == {"first_subject", "second_subject"}

\* the subject the engine answered the i-th call with
Resolved(i) == AstrologicalSubject(calls[i].request)

\* the composite record the engine answered the composite call with
EngineComposite == CompositeSubject(Resolved(1), Resolved(2), engine.composite_keys)

\* C7: in every successful composite response, data.composite_subject has
\* neither first_subject nor second_subject, whether or not the engine's
\* composite record had them; every other key of the engine's record is kept
\* unchanged; the two subjects' records are data.first_subject and
\* data.second_subject.
C7_CompositeStripped ==
    (op \in CompositeOps /\ Succeeded) =>
        LET kept == result.data.composite_subject
        IN  /\ DOMAIN kept = (DOMAIN EngineComposite) \ StrippedKeys
            /\ \A k \in DOMAIN kept : kept[k] = EngineComposite[k]
            /\ DOMAIN result.data = {"composite_subject", "first_subject", "second_subject"}
            /\ result.data.first_subject = model_dump(model(Resolved(1)))
            /\ result.data.second_subject = model_dump(model(Resolved(2)))

\* a composite method answered after the engine's composite record
\* carried both subjects
C7_Witness ==
    /\ op \in CompositeOps
    /\ Succeeded
    /\ StrippedKeys \subseteq DOMAIN EngineComposite
    /\ "midpoints_of" \in DOMAIN result.data.composite_subject

----------------------------------------------------------------------------
(* C8 *)

\* C8: every successful calculate_relationship_score response has exactly
\* the three scalar score fields, republished unchanged from the engine's
\* score, and the engine's aspect list in the engine's order (beside status
\* and data); the score is asked for the resolved subjects in the order
\* (first, second).
C8_ScoreResponse ==
    (op = "calculate_relationship_score" /\ Succeeded) =>
        LET asked == calls[3].request
            score_model == RelationshipScore(Resolved(1), Resolved(2), engine.score)
        IN  /\ DOMAIN result = { "status", "score", "score_description", "is_destiny_sign",
                                 "aspects", "data" }
            /\ result.score = engine.score.score_value
            /\ result.score_description = engine.score.score_description
            /\ result.is_destiny_sign = engine.score.is_destiny_sign
            /\ result.aspects = score_model.aspects
            /\ \A i \in 1..MaxAspects : result.aspects[i].aspect_no = i
            /\ calls[3].kind = "score"
            /\ asked.first_obj.computed_from = SubjectKwargs(args.first_subject)
            /\ asked.second_obj.computed_from = SubjectKwargs(args.second_subject)

\* a score was answered for two different subjects, flagged as destiny sign
C8_Witness ==
    /\ op = "calculate_relationship_score"
    /\ Succeeded
    /\ result.is_destiny_sign
    /\ Len(result.aspects) = MaxAspects
    /\ args.first_subject # args.second_subject

----------------------------------------------------------------------------
(* C9 *)

\* C9: get_current_time_data takes no subject or time from the caller; it
\* resolves exactly one subject, dated by the time source, at the Greenwich
\* reference location with online = FALSE; its successful response has only
\* status and data.
C9_CurrentTime ==
    (op = "get_current_time_data") =>
        /\ args = NoArgs
        /\ Count(calls, "subject") <= 1
        /\ calls[1].kind = "time"
        /\ Len(calls) >= 2 =>
              LET request == calls[2].request
              IN  /\ calls[2].kind = "subject"
                  /\ request.year = engine.now.year /\ request.month = engine.now.month
                  /\ request.day = engine.now.day /\ request.hour = engine.now.hour
                  /\ request.minute = engine.now.minute
                  /\ request.lat = "51.477928" /\ request.lng = "-0.001545"
                  /\ request.tz_str = "GMT"
                  /\ request.online = FALSE
                  /\ DOMAIN request = { "city", "nation", "lat", "lng", "tz_str", "year",
                                        "month", "day", "hour", "minute", "online" }
        /\ Succeeded =>
              /\ Count(calls, "subject") = 1
              /\ DOMAIN result = {"status", "data"}
              /\ result.data = model_dump(model(Resolved(2)))

\* the current moment was answered for the last hour of the last year the
\* clock ranges over
C9_Witness ==
    /\ op = "get_current_time_data"
    /\ Succeeded
    /\ engine.now.hour = 23
    /\ result.data.computed_from.hour = 23
    /\ result.data.computed_from.year = 2024 + NumYears - 1

----------------------------------------------------------------------------
(* C10 *)

RaisedCalls == {i \in DOMAIN calls : calls[i].outcome = "raised"}

\* the exception a caller may see for a failure of the engine
Surfaces(error, engine_error) ==
    \/ (DOMAIN error = DOMAIN engine_error /\ error.type = engine_error.type
        /\ error.message = engine_error.message)
    \/ (IsLocationError(error) /\ error.cause = engine_error)

\* C10: in every method, a failing collaborator call makes the method fail
\* (no response is returned), is the last call the method makes (nothing is
\* retried or continued), and a response is returned only if every call
\* succeeded.
C10_NoPartialSuccessNoRetry ==
    (op # "idle") =>
        /\ Succeeded \/ Failed
        /\ (RaisedCalls # {}) =>
              /\ Failed
              /\ RaisedCalls = {Len(calls)}
              /\ Surfaces(result.error, engine.fault.err)
        /\ Succeeded => RaisedCalls = {}
        /\ Failed => RaisedCalls # {}

\* a method failed at its last collaborator call, after three calls went well
C10_Witness ==
    /\ op # "idle"
    /\ Failed
    /\ Len(calls) = 4
    /\ LastCall.kind = "chart"
    /\ \A i \in 1..3 : calls[i].outcome = "ok"

----------------------------------------------------------------------------
(* C11 *)

\* the chart type each chart method asks the engine for
ExpectedChartType ==
    CASE op = "calculate_birth_chart" -> "Natal"
      [] op = "calculate_synastry_chart" -> "Synastry"
      [] op = "calculate_transit_chart" -> "Transit"
      [] op = "calculate_composite_chart" -> "Composite"

\* the settings of the chart the engine builds for the i-th call
ChartSettings(i) ==
    KerykeionChartSVG(calls[i].request.first_obj, calls[i].request.kwargs).settings

\* C11: a chart is built and rendered only by the four chart methods, of type
\* Natal, Synastry, Transit and Composite respectively; every other method
\* makes no chart or render call and answers without `chart`; get_birth_data
\* and get_current_time_data also answer without `aspects`.
C11_ChartOnlyInChartMethods ==
    (op # "idle") =>
        /\ \A i \in DOMAIN calls :
              calls[i].kind \in {"chart", "render"} => op \in ChartOps
        /\ \A i \in DOMAIN calls :
              calls[i].kind = "chart" => ChartSettings(i).chart_type = ExpectedChartType
        /\ (Succeeded /\ op \in ChartOps) =>
              /\ "chart" \in DOMAIN result
              /\ result.chart.of.chart_type = ExpectedChartType
              /\ Count(calls, "render") = 1
        /\ (Succeeded /\ op \notin ChartOps) => "chart" \notin DOMAIN result
        /\ (Succeeded /\ op \in {"get_birth_data", "get_current_time_data"}) =>
              "aspects" \notin DOMAIN result

\* a transit chart was rendered
C11_Witness ==
    /\ op = "calculate_transit_chart"
    /\ Succeeded
    /\ result.chart.of.chart_type = "Transit"
    /\ LastCall.kind = "render"

----------------------------------------------------------------------------
(* C12 *)

\* the methods that take active_points and active_aspects
FilterOps == ChartOps \cup { "get_natal_aspects", "get_synastry_aspects",
                             "get_transit_aspects", "get_composite_aspects" }

\* the filters the engine receives in the i-th call (a chart or an aspects
\* call), its own defaults standing for the keywords not passed
ReceivedFilters(i) ==
    [ active_points |-> Kw(calls[i].request.kwargs, "active_points", DEFAULT_ACTIVE_POINTS),
      active_aspects |-> Kw(calls[i].request.kwargs, "active_aspects", DEFAULT_ACTIVE_ASPECTS) ]

\* the caller's list, or the default when the caller gave None
GivenOr(x, default) == IF x.isNone THEN default ELSE x

\* C12: in every method that takes theme, language, active_points or
\* active_aspects, the engine receives the caller's value for each option when
\* the caller supplies one, and the default (language "EN", the default
\* active points, the default active aspects) only when the caller supplies
\* none.
C12_OptionsReachEngine ==
    \A i \in DOMAIN calls :
        /\ (op \in FilterOps /\ calls[i].kind \in {"chart", "aspects"}) =>
              /\ ReceivedFilters(i).active_points
                    = GivenOr(args.active_points, DEFAULT_ACTIVE_POINTS)
              /\ ReceivedFilters(i).active_aspects
                    = GivenOr(args.active_aspects, DEFAULT_ACTIVE_ASPECTS)
        /\ (op \in ChartOps /\ calls[i].kind = "chart") =>
              /\ ChartSettings(i).theme = args.theme
              /\ ChartSettings(i).chart_language
                    = (IF args.language = None THEN "EN" ELSE args.language)

\* C12, for every method but calculate_composite_chart and with an empty
\* list counted as no value (holds of the code)
C12_OptionsReachEngineElsewhere ==
    \A i \in DOMAIN calls :
        /\ ( /\ op \in FilterOps \ {"calculate_composite_chart"}
             /\ calls[i].kind \in {"chart", "aspects"} ) =>
              /\ ReceivedFilters(i).active_points
                    = ListOr(args.active_points, DEFAULT_ACTIVE_POINTS)
              /\ ReceivedFilters(i).active_aspects
                    = ListOr(args.active_aspects, DEFAULT_ACTIVE_ASPECTS)
        /\ (op \in ChartOps /\ calls[i].kind = "chart") =>
              /\ ChartSettings(i).theme = args.theme
              /\ op # "calculate_composite_chart" =>
                    ChartSettings(i).chart_language
                        = (IF args.language = None THEN "EN" ELSE args.language)

\* C12, for the lists that are not empty (fails for calculate_composite_chart)
C12_NonEmptyOptionsReachEngine ==
    \A i \in DOMAIN calls :
        /\ (op \in FilterOps /\ calls[i].kind \in {"chart", "aspects"}) =>
              /\ ReceivedFilters(i).active_points
                    = ListOr(args.active_points, DEFAULT_ACTIVE_POINTS)
              /\ ReceivedFilters(i).active_aspects
                    = ListOr(args.active_aspects, DEFAULT_ACTIVE_ASPECTS)
        /\ (op \in ChartOps /\ calls[i].kind = "chart") =>
              /\ ChartSettings(i).theme = args.theme
              /\ ChartSettings(i).chart_language
                    = (IF args.language = None THEN "EN" ELSE args.language)

----------------------------------------------------------------------------
(* C13 *)

\* the call being answered, made with wheel_only = w and everything else,
\* the engine's answers included, the same
ChartCall(w) ==
    CASE op = "calculate_birth_chart" ->
            calculate_birth_chart(args.subject, args.theme, args.language, w,
                                  args.active_points, args.active_aspects, engine)
      [] op = "calculate_synastry_chart" ->
            calculate_synastry_chart(args.first_subject, args.second_subject, args.theme,
                                     args.language, w, args.active_points,
                                     args.active_aspects, engine)
      [] op = "calculate_transit_chart" ->
            calculate_transit_chart(args.first_subject, args.transit_subject, args.theme,
                                    args.language, w, args.active_points,
                                    args.active_aspects, engine)
      [] op = "calculate_composite_chart" ->
            calculate_composite_chart(args.first_subject, args.second_subject, args.theme,
                                      args.language, w, args.active_points,
                                      args.active_aspects, engine)

\* the render call that wheel_only selects
ExpectedCallee == IF args.wheel_only THEN "makeWheelOnlyTemplate" ELSE "makeTemplate"
ExpectedTemplate == IF args.wheel_only THEN "wheel_only" ELSE "full"

\* C13: a chart method makes one render call per invocation (none when the
\* invocation fails before the chart is built), the wheel-only template when
\* wheel_only is true and the full template when it is false; the same call
\* with the other value of wheel_only answers with the same data and aspects
\* and another chart.
C13_OneRenderByWheelOnly ==
    (op \in ChartOps) =>
        /\ Count(calls, "render") <= 1
        /\ Count(calls, "render") = 1 <=>
              (\E i \in DOMAIN calls : calls[i].kind = "chart" /\ calls[i].outcome = "ok")
        /\ \A i \in DOMAIN calls : calls[i].kind = "render" =>
              /\ i = Len(calls)
              /\ calls[i].request.callee = ExpectedCallee
              /\ calls[i].request.minify
        /\ Succeeded =>
              /\ Count(calls, "render") = 1
              /\ result.chart.template = ExpectedTemplate
              /\ LET other == ChartCall(~args.wheel_only).result
                 IN  /\ other.status = "OK"
                     /\ other.data = result.data
                     /\ other.aspects = result.aspects
                     /\ other.chart # result.chart
                     /\ other.chart.of = result.chart.of
              /\ ChartCall(args.wheel_only).result = result

C13_Witness ==
    /\ op = "calculate_composite_chart"
    /\ args.wheel_only
    /\ Succeeded
    /\ LastCall.request.callee = "makeWheelOnlyTemplate"
    /\ result.chart.template = "wheel_only"

----------------------------------------------------------------------------
(* C14 *)

\* the collaborator calls of a method that meets no failure, in order
ExpectedKinds ==
    CASE op = "get_birth_data" -> <<"subject">>
      [] op = "calculate_birth_chart" -> <<"subject", "chart", "render">>
      [] op = "get_natal_aspects" -> <<"subject", "aspects">>
      [] op \in {"calculate_synastry_chart", "calculate_transit_chart"} ->
            <<"subject", "subject", "chart", "render">>
      [] op \in {"get_synastry_aspects", "get_transit_aspects"} ->
            <<"subject", "subject", "aspects">>
      [] op = "calculate_relationship_score" -> <<"subject", "subject", "score">>
      [] op = "calculate_composite_chart" ->
            <<"subject", "subject", "composite", "chart", "render">>
      [] op = "get_composite_aspects" -> <<"subject", "subject", "composite", "aspects">>
      [] op = "get_current_time_data" -> <<"time", "subject">>

\* the place of a kind of call in the order of the claim
Stage(kind) ==
    CASE kind = "time" -> 0
      [] kind = "subject" -> 1
      [] kind \in {"composite", "score"} -> 3
      [] kind \in {"chart", "aspects"} -> 4
      [] kind = "render" -> 5

\* the subject the i-th call resolves is the caller's i-th subject
ResolvesInOrder(i) ==
    IF ViaHelper(i)
    THEN calls[i].request = SubjectKwargs(RawInput(i))
    ELSE IF op \in TransitOps
         THEN calls[i].request
                = TransitKwargs(args.first_subject, AstrologicalSubject(calls[1].request),
                                args.transit_subject)
         ELSE TRUE

\* C14: the collaborator calls of every method happen in a fixed order: the
\* time source (current-moment query), the first subject, the second or
\* transit subject, the composite or the score, then the aspects or the chart
\* and its rendering; once a call fails no later call is made (a failed first
\* subject leaves the second unresolved, a failed time source leaves the
\* engine uncalled).
C14_FixedCallOrder ==
    (op # "idle") =>
        /\ Len(calls) \in 1..Len(ExpectedKinds)
        /\ \A i \in DOMAIN calls :
              /\ calls[i].kind = ExpectedKinds[i]
              /\ calls[i].kind = "subject" => ResolvesInOrder(i)
              /\ calls[i].outcome = "raised" => i = Len(calls)
              /\ i < Len(calls) => calls[i].outcome = "ok"
        /\ \A i, j \in DOMAIN calls : i < j => Stage(calls[i].kind) <= Stage(calls[j].kind)
        /\ Succeeded <=> (Len(calls) = Len(ExpectedKinds) /\ LastCall.outcome = "ok")
        /\ Failed <=> LastCall.outcome = "raised"
        /\ (engine.fault.kind = "subject" /\ engine.fault.nth = 1) =>
              Count(calls, "subject") = 1 /\ LastCall.kind = "subject" /\ Failed
        /\ (engine.fault.kind = "time" /\ op = "get_current_time_data") =>
              Len(calls) = 1 /\ Failed

\* the first subject of a two-subject method failed to resolve: the second
\* was never asked for
C14_Witness ==
    /\ op = "calculate_relationship_score"
    /\ Failed
    /\ Len(calls) = 1
    /\ calls[1].kind = "subject"
    /\ calls[1].request.name = args.first_subject.name
    /\ calls[1].request.name # args.second_subject.name

\* the time source failed: the engine was never called
C14_TimeSourceFailed ==
    /\ op = "get_current_time_data"
    /\ Failed
    /\ Len(calls) = 1
    /\ calls[1].kind = "time"

----------------------------------------------------------------------------
(* C15 *)

\* what the method being answered does with its arguments and the engine's
\* answers, whatever came before
Outcome ==
    CASE op = "get_birth_data" -> get_birth_data(args.subject, engine)
      [] op = "get_natal_aspects" ->
            get_natal_aspects(args.subject, args.active_points, args.active_aspects, engine)
      [] op = "get_synastry_aspects" ->
            get_synastry_aspects(args.first_subject, args.second_subject,
                                 args.active_points, args.active_aspects, engine)
      [] op = "get_transit_aspects" ->
            get_transit_aspects(args.first_subject, args.transit_subject,
                                args.active_points, args.active_aspects, engine)
      [] op = "calculate_relationship_score" ->
            calculate_relationship_score(args.first_subject, args.second_subject, engine)
      [] op = "get_composite_aspects" ->
            get_composite_aspects(args.first_subject, args.second_subject,
                                  args.active_points, args.active_aspects, engine)
      [] op \in ChartOps -> ChartCall(args.wheel_only)

====
